---- MODULE Spec2Model ----
(***************************************************************************)
(* A model of src/app.py: the cluster size planner                         *)
(* (_calculate_cluster_sizes), the recursive hierarchical splitter         *)
(* (cluster_buildings_with_size), the cluster assembler (getClusters), the *)
(* radius search around a pin (getBuildingsAroundPin) and the pin-mode     *)
(* request handler (handle_bottom_up_clustering).                          *)
(*                                                                         *)
(* Numbers.  A tolerance is a float in the source, obtained from a         *)
(* percentage (thresholdVal / 100, line 505); it is modelled by that       *)
(* percentage, an integer p standing for p/100, and every product          *)
(* x * (1 -/+ tolerance) is evaluated exactly as x * (100 -/+ p) / 100.    *)
(* The rounding error of IEEE doubles is not modelled: where the exact     *)
(* product is an integer, the double may lie just beside it, and int() or  *)
(* math.floor then give one less (90 * (1 - 0.3) -> 62) and math.ceil one  *)
(* more (100 * (1 + 0.1) -> 111) than the exact value.  One effect of the   *)
(* doubles is modelled, in the size planner: a positive tolerance of at    *)
(* most 2^-54 (thresholdVal = 1e-15, say) is absorbed, 1 - tolerance and   *)
(* 1 + tolerance both being 1.0; TinyPct stands for such a tolerance.      *)
(***************************************************************************)
EXTENDS Integers, Sequences, FiniteSets, TLC

VARIABLES
    \* _calculate_cluster_sizes
    plan_pc, n_samples, num_clusters, buildings_per_cluster, balance_tolerance, sizes,
    \* getClusters
    asm_pc, buildingsGDF, coords, cluster_labels, clusters,
    \* cluster_buildings_with_size
    split_pc, max_buildings, thresholdVal, cluster_counter, stack, finalized, calls,
    \* getBuildingsAroundPin
    search_pc, total_buildings_needed, tolerance, band, delta, left, right,
    building_count, region_count, queries, branch, consistent, coordinates,
    \* handle_bottom_up_clustering
    pin_pc, data, response, search_runs, partition_calls, partition_n

plan_vars ==
    <<plan_pc, n_samples, num_clusters, buildings_per_cluster, balance_tolerance, sizes>>

asm_vars == <<asm_pc, buildingsGDF, coords, cluster_labels, clusters>>

split_vars ==
    <<split_pc, max_buildings, thresholdVal, cluster_counter, stack, finalized, calls>>

search_vars ==
    <<search_pc, total_buildings_needed, tolerance, band, delta, left, right,
      building_count, region_count, queries, branch, consistent, coordinates>>

pin_vars == <<pin_pc, data, response, search_runs, partition_calls, partition_n>>

vars == <<plan_vars, asm_vars, split_vars, search_vars, pin_vars>>

\* ---------------------------------------------------------------- bounds
MaxSamples == 12
MaxClusters == 4
\* The largest buildings_per_cluster of the points-per-cluster mode.
MaxPerCluster == 4
\* getClusters: the longest input sequence and the largest label.
MaxLen == 3
MaxLabel == 2
\* cluster_buildings_with_size: the number of points, the largest cap, and
\* the interpreter's recursion limit (the deepest stack of
\* hierarchical_clustering calls that does not raise RecursionError).
MaxPoints == 4
MaxCap == 2
MaxDepth == 3
\* getBuildingsAroundPin: the largest target and the largest count the
\* building oracle answers.
MaxTotal == 4
MaxCount == 6
\* handle_bottom_up_clustering: the largest noOfClusters and noOfBuildings
\* of a request.
MaxPinClusters == 2
MaxPinBuildings == 2

\* Tolerances, in percent: the whole of [0, 1) on the percent grid.
TolPcts == 0..99

\* A tolerance t with 0 < t <= 2^-54: not a percentage of the grid, it is
\* told apart by this value outside the grid.
TinyPct == -1

\* The tolerances of the size planner.
PlanTolPcts == TolPcts \cup {TinyPct}

\* ------------------------------------------------------------ arithmetic
\* math.floor(a / b) and math.ceil(a / b) for a >= 0, b > 0.
Floor(a, b) == a \div b
Ceil(a, b) == (a + b - 1) \div b

\* ------------------------------------------------------------ getClusters
\* The points of the assembler's inputs (longitude, latitude).
Points == {<<0, 0>>, <<1, 1>>, <<2, 2>>}
\* Labels as the clusterers hand them out: from 0 (k-means) or from 1.
Labels == 0..MaxLabel

SeqsUpTo(S, n) == UNION {[1..m -> S] : m \in 0..n}

Min(a, b) == IF a <= b THEN a ELSE b

\* Counter(cluster_labels): the labels are counted one by one, a label not
\* seen so far counting from 0.
RECURSIVE Counter(_)
Counter(labels) ==
    IF labels = <<>>
    THEN [l \in {} |-> 0]
    ELSE LET rest == Counter(SubSeq(labels, 1, Len(labels) - 1))
             l == labels[Len(labels)]
         IN  IF l \in DOMAIN rest
             THEN [rest EXCEPT ![l] = @ + 1]
             ELSE [x \in DOMAIN rest \cup {l} |-> IF x = l THEN 1 ELSE rest[x]]

\* Mutant: every record reports the number of points, not its cluster's.
getClusters_total(cs, labels) ==
    [i \in 1..Min(Len(cs), Len(labels)) |->
        [coordinates |-> <<cs[i][1], cs[i][2]>>,
         cluster |-> labels[i],
         numOfBuildings |-> Len(labels)]]

\* The list comprehension over zip(coords, cluster_labels): zip stops at the
\* shorter of the two.
getClusters(cs, labels) ==
    LET cluster_counts == Counter(labels)
    IN  [i \in 1..Min(Len(cs), Len(labels)) |->
            [coordinates |-> <<cs[i][1], cs[i][2]>>,
             cluster |-> labels[i],
             numOfBuildings |-> cluster_counts[labels[i]]]]

\* buildingsGDF is the GeoJSON dict of the buildings; only its
\* "cluster_label" key is modelled (absent until getClusters sets it).
NoGDF == [has_cluster_label |-> FALSE, cluster_label |-> <<>>]

AsmIdle ==
    /\ asm_pc = "idle" /\ buildingsGDF = NoGDF
    /\ coords = <<>> /\ cluster_labels = <<>> /\ clusters = <<>>

AsmInit ==
    /\ asm_pc = "call"
    /\ buildingsGDF = NoGDF
    /\ coords \in SeqsUpTo(Points, MaxLen)
    /\ cluster_labels \in SeqsUpTo(Labels, MaxLen)
    /\ clusters = <<>>

\* One call of getClusters: the records are built, the labels are stored in
\* buildingsGDF["cluster_label"], the records are returned.
AsmReturn ==
    /\ asm_pc = "call"
    /\ clusters' = getClusters(coords, cluster_labels)
    /\ buildingsGDF' = [has_cluster_label |-> TRUE, cluster_label |-> cluster_labels]
    /\ asm_pc' = "done"
    /\ UNCHANGED <<pin_vars, search_vars, plan_vars, split_vars, coords, cluster_labels>>

\* -------------------------------------------- cluster_buildings_with_size
\* The shrink factors (thresholdVal), in percent: below, at and above 1.
ShrinkPcts == {50, 100, 150}

Range(f) == {f[i] : i \in DOMAIN f}

\* Point i of the input.  Where the points lie is not modelled: linkage and
\* fcluster are oracles, and the coordinates only travel to the records.
PointAt(i) == <<i, i>>

\* fcluster's answers for m observations: the flat cluster labels 1..k, k >= 1,
\* every label used, in any arrangement.
Groupings(m) ==
    {f \in [1..m -> 1..m] : \E k \in 1..m : Range(f) = 1..k}

\* np.unique(labels): the distinct labels, ascending.
RECURSIVE Ascending(_)
Ascending(S) ==
    IF S = {} THEN <<>>
    ELSE LET m == CHOOSE x \in S : \A y \in S : x <= y
         IN  <<m>> \o Ascending(S \ {m})

\* The positions of a frame whose provisional label is cl (labels == cl).
Mask(labels, cl) == {i \in 1..Len(labels) : labels[i] = cl}

\* coords[labels == cluster_label, :]: the masked rows, in order.
RECURSIVE Subset(_, _, _)
Subset(cs, labels, cl) ==
    IF cs = <<>> THEN <<>>
    ELSE LET n == Len(cs)
             front == Subset(SubSeq(cs, 1, n - 1), SubSeq(labels, 1, n - 1), cl)
         IN  IF labels[n] = cl THEN Append(front, cs[n]) ELSE front

\* new_labels[labels == cluster_label] = cluster_counter
Assign(new_labels, labels, cl, id) ==
    [i \in 1..Len(new_labels) |-> IF labels[i] = cl THEN id ELSE new_labels[i]]

\* new_labels[labels == cluster_label] = subset_cluster_labels: the k-th
\* masked position takes the k-th label of the child.
Splice(new_labels, labels, cl, sub) ==
    [i \in 1..Len(new_labels) |->
        IF labels[i] = cl
        THEN sub[Cardinality({j \in 1..i : labels[j] = cl})]
        ELSE new_labels[i]]

\* Mutant: a group one over the cap is kept.
MustSplit_off_by_one(count, cap, shrink) == count > cap + 1 /\ shrink < 100

\* count > max_buildings and thresholdVal < 1
MustSplit(count, cap, shrink) == count > cap /\ shrink < 100

\* Mutant: the counter is not advanced.
NextCounter_stuck(c) == c

\* cluster_counter += 1
NextCounter(c) == c + 1

\* A call of hierarchical_clustering that has not grouped yet.  threshold is
\* held as the number of times thresholdVal was multiplied in.
Frame(cs, shrinks) ==
    [at |-> "enter", coords |-> cs, threshold |-> shrinks,
     labels |-> <<>>, new_labels |-> <<>>, todo |-> <<>>]

Top == stack[Len(stack)]

SetTop(f) == [stack EXCEPT ![Len(stack)] = f]

SplitIdle ==
    /\ split_pc = "idle" /\ max_buildings = 1 /\ thresholdVal = 100
    /\ cluster_counter = 1 /\ stack = <<>> /\ finalized = <<>> /\ calls = 0

SplitInit ==
    /\ split_pc = "call"
    /\ max_buildings \in 1..MaxCap
    /\ thresholdVal \in ShrinkPcts
    /\ cluster_counter = 1
    /\ stack = <<>>
    /\ finalized = <<>>
    /\ calls = 0
    /\ asm_pc = "idle"
    /\ buildingsGDF = NoGDF
    /\ \E n \in 0..MaxPoints : coords = [i \in 1..n |-> PointAt(i)]
    /\ cluster_labels = <<>>
    /\ clusters = <<>>

\* Lines 161-164 and the call of line 200.  np.ptp of no points raises
\* ValueError.
SplitCall ==
    /\ split_pc = "call"
    /\ IF Len(coords) = 0
       THEN /\ split_pc' = "ValueError"
            /\ UNCHANGED <<cluster_counter, stack, cluster_labels, calls>>
       ELSE /\ split_pc' = "run"
            /\ calls' = 1
            /\ cluster_counter' = 1
            /\ cluster_labels' = [i \in 1..Len(coords) |-> 0]
            /\ stack' = <<Frame([i \in 1..Len(coords) |-> i], 0)>>
    /\ UNCHANGED <<pin_vars, search_vars, plan_vars, max_buildings, thresholdVal, finalized, asm_pc, buildingsGDF,
                   coords, clusters>>

\* Lines 170-179: linkage and fcluster group the subset.  A subset is never
\* empty here; linkage raises ValueError on a single observation.
SplitGroup ==
    /\ split_pc = "run"
    /\ Top.at = "enter"
    /\ IF Len(Top.coords) = 1
       THEN /\ split_pc' = "ValueError"
            /\ stack' = <<>>
       ELSE /\ \E labels \in Groupings(Len(Top.coords)) :
                 stack' = SetTop([Top EXCEPT
                             !.at = "loop",
                             !.labels = labels,
                             !.new_labels = [i \in 1..Len(labels) |-> 0],
                             !.todo = Ascending(Range(labels))])
            /\ UNCHANGED split_pc
    /\ UNCHANGED <<pin_vars, search_vars, plan_vars, max_buildings, thresholdVal, cluster_counter, finalized, calls,
                   asm_vars>>

\* Lines 181-191: the next provisional group is over the cap and the shrink
\* factor is below 1: hierarchical_clustering is called on the group; past
\* the recursion limit the call raises RecursionError.
SplitRecurse ==
    /\ split_pc = "run"
    /\ Top.at = "loop"
    /\ Top.todo # <<>>
    /\ LET cl == Head(Top.todo)
       IN  /\ MustSplit(Cardinality(Mask(Top.labels, cl)), max_buildings, thresholdVal)
           /\ IF Len(stack) >= MaxDepth
              THEN /\ split_pc' = "RecursionError"
                   /\ stack' = <<>>
                   /\ UNCHANGED calls
              ELSE /\ calls' = calls + 1
                   /\ stack' = Append(stack,
                                Frame(Subset(Top.coords, Top.labels, cl), Top.threshold + 1))
                   /\ UNCHANGED split_pc
    /\ UNCHANGED <<pin_vars, search_vars, plan_vars, max_buildings, thresholdVal, cluster_counter, finalized, asm_vars>>

\* Lines 192-195: the next provisional group is final: it takes the
\* counter's value as its ID and the counter advances.
SplitAssign ==
    /\ split_pc = "run"
    /\ Top.at = "loop"
    /\ Top.todo # <<>>
    /\ LET cl == Head(Top.todo)
       IN  /\ ~MustSplit(Cardinality(Mask(Top.labels, cl)), max_buildings, thresholdVal)
           /\ stack' = SetTop([Top EXCEPT
                           !.new_labels = Assign(Top.new_labels, Top.labels, cl, cluster_counter),
                           !.todo = Tail(Top.todo)])
           /\ finalized' = Append(finalized, Range(Subset(Top.coords, Top.labels, cl)))
           /\ cluster_counter' = NextCounter(cluster_counter)
    /\ UNCHANGED <<pin_vars, search_vars, plan_vars, split_pc, max_buildings, thresholdVal, calls, asm_vars>>

\* Line 197 in a recursive call, then line 191 in its caller: the child's
\* labels are spliced into the caller's new_labels.
SplitReturn ==
    /\ split_pc = "run"
    /\ Len(stack) > 1
    /\ Top.at = "loop"
    /\ Top.todo = <<>>
    /\ LET parent == stack[Len(stack) - 1]
           cl == Head(parent.todo)
       IN  stack' = Append(SubSeq(stack, 1, Len(stack) - 2),
                        [parent EXCEPT
                            !.new_labels = Splice(parent.new_labels, parent.labels, cl,
                                                  Top.new_labels),
                            !.todo = Tail(parent.todo)])
    /\ UNCHANGED <<pin_vars, search_vars, plan_vars, split_pc, max_buildings, thresholdVal, cluster_counter, finalized,
                   calls, asm_vars>>

\* Line 197 in the outermost call, then lines 200-202: the labels are
\* handed to getClusters, whose records are returned.
SplitFinish ==
    /\ split_pc = "run"
    /\ Len(stack) = 1
    /\ Top.at = "loop"
    /\ Top.todo = <<>>
    /\ cluster_labels' = Top.new_labels
    /\ clusters' = getClusters(coords, Top.new_labels)
    /\ buildingsGDF' = [has_cluster_label |-> TRUE, cluster_label |-> Top.new_labels]
    /\ stack' = <<>>
    /\ split_pc' = "done"
    /\ UNCHANGED <<pin_vars, search_vars, plan_vars, max_buildings, thresholdVal, cluster_counter, finalized, calls,
                   asm_pc, coords>>

\* -------------------------------------------------- getBuildingsAroundPin
\* Radii.  The source holds a radius in degrees, km_to_deg(km, pin_lat),
\* which is km times a factor fixed by the pin; the model holds it in
\* 1/Unit km, the grid on which every radius the search can probe
\* (2 km times 1.5 up to the 10 km cap, then up to seven midpoints) is an
\* integer.
Unit == 1024
InitialKm == 2
MaxKm == 10
initial_delta == InitialKm * Unit
max_delta == MaxKm * Unit

\* right - left > precision, precision being 0.1 km.
WiderThanPrecision(l, r) == 10 * (r - l) > Unit

\* Mutant: the radius grows by a quarter, not by a half.
Grow_by_quarter(d) == Min((d * 5) \div 4, max_delta)

\* min(delta * 1.5, max_delta)
Grow(d) == Min((d * 3) \div 2, max_delta)

\* int(x * (100 -/+ p) / 100) for x >= 0: int() truncates.
MinBuildings(total, tol) == (total * (100 - tol)) \div 100
MaxBuildings(total, tol) == (total * (100 + tol)) \div 100

\* The answers of filtered_buildings.size().getInfo().
Counts == 0..MaxCount

\* The tolerances of the search, in percent.
SearchTolPcts == {0, 25, 50}

NoBand == [min_buildings |-> 0, max_buildings |-> 0]

SearchIdle ==
    /\ search_pc = "idle" /\ total_buildings_needed = 0 /\ tolerance = 0
    /\ band = NoBand /\ delta = 0 /\ left = 0 /\ right = 0
    /\ building_count = 0 /\ region_count = 0 /\ queries = 0
    /\ branch = "none" /\ consistent = TRUE /\ coordinates = <<>>

SearchInit ==
    /\ search_pc = "call"
    /\ total_buildings_needed \in 1..MaxTotal
    /\ tolerance \in SearchTolPcts
    /\ band = NoBand /\ delta = 0 /\ left = 0 /\ right = 0
    /\ building_count = 0 /\ region_count = 0 /\ queries = 0
    /\ branch = "none" /\ consistent = TRUE /\ coordinates = <<>>

\* Lines 539-557: the band, the 2 km box and the first count.
\* region_count keeps the oracle's answer for the box the final fetch will
\* use (delta while expanding, right while bisecting).
SearchStart ==
    /\ search_pc = "call"
    /\ band' = [min_buildings |-> MinBuildings(total_buildings_needed, tolerance),
                max_buildings |-> MaxBuildings(total_buildings_needed, tolerance)]
    /\ delta' = initial_delta
    /\ \E c \in Counts : building_count' = c /\ region_count' = c
    /\ queries' = queries + 1
    /\ search_pc' = "expand"
    /\ UNCHANGED <<total_buildings_needed, tolerance, left, right, branch, consistent,
                   coordinates>>

\* Lines 559-563: one turn of the expansion loop.
SearchExpand ==
    /\ search_pc = "expand"
    /\ building_count < band.min_buildings /\ delta < max_delta
    /\ delta' = Grow(delta)
    /\ \E c \in Counts : building_count' = c /\ region_count' = c
    /\ queries' = queries + 1
    /\ UNCHANGED <<search_pc, total_buildings_needed, tolerance, band, left, right, branch,
                   consistent, coordinates>>

\* Mutant: the fallback to all available buildings is never taken.
StillInsufficient_never(count, min_b) == FALSE

\* Line 566: if building_count < min_buildings.
StillInsufficient(count, min_b) == count < min_b

\* Lines 566-567: the cap is reached below the band: all buildings of the
\* last box, sorted by distance, no limit.
SearchAll ==
    /\ search_pc = "expand"
    /\ ~(building_count < band.min_buildings /\ delta < max_delta)
    /\ StillInsufficient(building_count, band.min_buildings)
    /\ branch' = "all"
    /\ search_pc' = "fetch"
    /\ UNCHANGED <<total_buildings_needed, tolerance, band, delta, left, right,
                   building_count, region_count, queries, consistent, coordinates>>

\* Lines 568-571: the bracket of the binary search.
SearchBracket ==
    /\ search_pc = "expand"
    /\ ~(building_count < band.min_buildings /\ delta < max_delta)
    /\ ~StillInsufficient(building_count, band.min_buildings)
    /\ left' = initial_delta
    /\ right' = delta
    /\ branch' = "bisect"
    /\ search_pc' = "bisect"
    /\ UNCHANGED <<total_buildings_needed, tolerance, band, delta, building_count,
                   region_count, queries, consistent, coordinates>>

\* Lines 573-582: one turn of the binary search.
SearchBisect ==
    /\ search_pc = "bisect"
    /\ WiderThanPrecision(left, right)
    /\ LET mid == (left + right) \div 2
       IN  \E c \in Counts :
             /\ building_count' = c
             /\ IF c >= band.min_buildings
                THEN right' = mid /\ region_count' = c /\ UNCHANGED left
                ELSE left' = mid /\ UNCHANGED <<right, region_count>>
    /\ queries' = queries + 1
    /\ UNCHANGED <<search_pc, total_buildings_needed, tolerance, band, delta, branch,
                   consistent, coordinates>>

\* Lines 584-588: the box of the final fetch.
SearchFinal ==
    /\ search_pc = "bisect"
    /\ ~WiderThanPrecision(left, right)
    /\ delta' = right
    /\ search_pc' = "fetch"
    /\ UNCHANGED <<total_buildings_needed, tolerance, band, left, right, building_count,
                   region_count, queries, branch, consistent, coordinates>>

\* coordinates[:total_buildings_needed] when actual_count > max_buildings.
Trim(actual_count, total, max_b) ==
    IF actual_count > max_b THEN Min(actual_count, total) ELSE actual_count

\* sorted_buildings.getInfo(): n buildings lie in the box; after the binary
\* search the collection is cut by limit(max_buildings).
Fetched(n, how, max_b) == IF how = "bisect" THEN Min(n, max_b) ELSE n

\* The locals of the search end with the call.
SearchLocalsGone ==
    /\ delta' = 0 /\ left' = 0 /\ right' = 0
    /\ building_count' = 0 /\ region_count' = 0

\* Lines 590-611: the buildings are fetched (the box holds n of them; an
\* oracle that answers alike every time has n = region_count), their
\* coordinates are read and trimmed, and the call returns.
SearchReturn ==
    /\ search_pc = "fetch"
    /\ \E n \in Counts :
         /\ consistent' = (n = region_count)
         /\ LET actual_count == Fetched(n, branch, band.max_buildings)
                kept == Trim(actual_count, total_buildings_needed, band.max_buildings)
            IN  coordinates' = [i \in 1..kept |-> PointAt(i)]
    /\ search_pc' = "returned"
    /\ SearchLocalsGone
    /\ UNCHANGED <<total_buildings_needed, tolerance, band, queries, branch>>

\* Lines 592-593: getInfo fails (too many elements) and the call raises.
SearchRaise ==
    /\ search_pc = "fetch"
    /\ search_pc' = "raised"
    /\ SearchLocalsGone
    /\ UNCHANGED <<total_buildings_needed, tolerance, band, queries, branch, consistent,
                   coordinates>>

\* ---------------------------------------------- _calculate_cluster_sizes
NoSizes == [base_size |-> -1, min_size |-> -1, max_size |-> -1]

\* (1 - balance_tolerance) and (1 + balance_tolerance) as doubles, in
\* percent: a tolerance of at most 2^-54 is lost in the rounding.
OneMinus(tol) == IF tol = TinyPct THEN 100 ELSE 100 - tol
OnePlus(tol) == IF tol = TinyPct THEN 100 ELSE 100 + tol

\* Mutant: the lower bound takes the upper bound's factor.
calculate_cluster_sizes_swapped(n, k, tol) ==
    LET base_size == Ceil(n, k)
    IN  IF tol = 0
        THEN [base_size |-> base_size, min_size |-> base_size, max_size |-> Floor(n, k)]
        ELSE [base_size |-> base_size,
              min_size |-> IF k = 1 THEN base_size ELSE Ceil(base_size * OnePlus(tol), 100),
              max_size |-> IF k = 1 THEN base_size ELSE Floor(base_size * OneMinus(tol), 100)]

\* Mutant: the exact (tolerance == 0) and single-cluster cases are dropped.
calculate_cluster_sizes_no_exact(n, k, tol) ==
    LET base_size == Ceil(n, k)
    IN  [base_size |-> base_size,
         min_size |-> Floor(base_size * OneMinus(tol), 100),
         max_size |-> Ceil(base_size * OnePlus(tol), 100)]

calculate_cluster_sizes(n, k, tol) ==
    LET base_size == Ceil(n, k)
    IN  IF tol = 0
        THEN [base_size |-> base_size, min_size |-> Floor(n, k), max_size |-> base_size]
        ELSE [base_size |-> base_size,
              min_size |-> IF k = 1 THEN base_size ELSE Floor(base_size * OneMinus(tol), 100),
              max_size |-> IF k = 1 THEN base_size ELSE Ceil(base_size * OnePlus(tol), 100)]

PlanIdle ==
    /\ plan_pc = "idle" /\ n_samples = 0 /\ num_clusters = 1
    /\ buildings_per_cluster = 0
    /\ balance_tolerance = 0 /\ sizes = NoSizes

\* The planner is called with the number of clusters ("call", as at line
\* 118), or the number of clusters is first derived from the buildings per
\* cluster ("count", lines 95-97; num_clusters is not assigned yet).
PlanInit ==
    /\ plan_pc \in {"call", "count"}
    /\ n_samples \in 0..MaxSamples
    /\ IF plan_pc = "call"
       THEN num_clusters \in 0..MaxClusters /\ buildings_per_cluster = 0
       ELSE num_clusters = 0 /\ buildings_per_cluster \in 0..MaxPerCluster
    /\ balance_tolerance \in PlanTolPcts
    /\ sizes = NoSizes

\* The call returns the three sizes.
PlanReturn ==
    /\ plan_pc = "call"
    /\ num_clusters >= 1
    /\ sizes' = calculate_cluster_sizes(n_samples, num_clusters, balance_tolerance)
    /\ plan_pc' = "done"
    /\ UNCHANGED <<pin_vars, search_vars, asm_vars, split_vars, n_samples, num_clusters,
                   buildings_per_cluster, balance_tolerance>>

\* n_samples / num_clusters with num_clusters = 0 raises ZeroDivisionError.
PlanRaise ==
    /\ plan_pc = "call"
    /\ num_clusters = 0
    /\ plan_pc' = "ZeroDivisionError"
    /\ UNCHANGED <<pin_vars, search_vars, asm_vars, split_vars, n_samples, num_clusters,
                   buildings_per_cluster, balance_tolerance, sizes>>

\* math.ceil(n_samples / buildings_per_cluster), line 96.
NumClusters(n, per_cluster) == Ceil(n, per_cluster)

\* Lines 95-97: the number of clusters is derived and the sizes are planned.
PlanCount ==
    /\ plan_pc = "count"
    /\ buildings_per_cluster >= 1
    /\ NumClusters(n_samples, buildings_per_cluster) >= 1
    /\ num_clusters' = NumClusters(n_samples, buildings_per_cluster)
    /\ sizes' = calculate_cluster_sizes(n_samples, num_clusters', balance_tolerance)
    /\ plan_pc' = "done"
    /\ UNCHANGED <<pin_vars, search_vars, asm_vars, split_vars, n_samples,
                   buildings_per_cluster, balance_tolerance>>

\* Line 96 divides by buildings_per_cluster = 0, or no sample gives
\* num_clusters = 0 and line 56 divides by it: ZeroDivisionError.
PlanCountRaise ==
    /\ plan_pc = "count"
    /\ \/ buildings_per_cluster = 0 /\ UNCHANGED num_clusters
       \/ /\ buildings_per_cluster >= 1
          /\ NumClusters(n_samples, buildings_per_cluster) = 0
          /\ num_clusters' = 0
    /\ plan_pc' = "ZeroDivisionError"
    /\ UNCHANGED <<pin_vars, search_vars, asm_vars, split_vars, n_samples,
                   buildings_per_cluster, balance_tolerance, sizes>>

\* -------------------------------------------- handle_bottom_up_clustering
\* The tolerances of a request, in percent (thresholdVal).
PinTolPcts == {0, 25, 50}

NoResponse == [code |-> 0, error |-> "none", actual |-> 0, required |-> 0]

NoData == [pin_ok |-> FALSE, no_of_clusters |-> 0, no_of_buildings |-> 0, tolerance |-> 0]

PinIdle ==
    /\ pin_pc = "idle" /\ data = NoData /\ response = NoResponse
    /\ search_runs = 0 /\ partition_calls = 0 /\ partition_n = 0

\* A bottomUp request, as get_building_density hands it on (lines 501-510).
PinInit ==
    /\ pin_pc = "request"
    /\ data \in [pin_ok : BOOLEAN,
                  no_of_clusters : 0..MaxPinClusters,
                  no_of_buildings : 1..MaxPinBuildings,
                  tolerance : PinTolPcts]
    /\ response = NoResponse
    /\ search_runs = 0 /\ partition_calls = 0 /\ partition_n = 0

\* An exception leaves the handler and get_building_density answers 400
\* with its text (lines 515-517).
Failed(exception) == [code |-> 400, error |-> exception, actual |-> 0, required |-> 0]

\* Lines 629-631: the pin is missing or malformed.
PinInvalid ==
    /\ pin_pc = "request"
    /\ ~data.pin_ok
    /\ response' = Failed("Invalid pin coordinates")
    /\ pin_pc' = "responded"
    /\ UNCHANGED <<data, search_runs, partition_calls, partition_n>>
    /\ UNCHANGED <<plan_vars, asm_vars, split_vars, search_vars>>

\* Lines 633-637: the target is computed and getBuildingsAroundPin is called
\* with tolerance 0.
PinSearch ==
    /\ pin_pc = "request"
    /\ data.pin_ok
    /\ total_buildings_needed' = data.no_of_clusters * data.no_of_buildings
    /\ tolerance' = 0
    /\ search_pc' = "call"
    /\ search_runs' = search_runs + 1
    /\ pin_pc' = "searching"
    /\ UNCHANGED <<data, response, partition_calls, partition_n>>
    /\ UNCHANGED <<band, delta, left, right, building_count, region_count, queries, branch,
                   consistent, coordinates>>
    /\ UNCHANGED <<plan_vars, asm_vars, split_vars>>

\* getBuildingsAroundPin raised (line 593).
PinSearchRaised ==
    /\ pin_pc = "searching"
    /\ search_pc = "raised"
    /\ response' = Failed("Error fetching buildings")
    /\ pin_pc' = "responded"
    /\ UNCHANGED <<data, search_runs, partition_calls, partition_n>>
    /\ UNCHANGED <<plan_vars, asm_vars, split_vars, search_vars>>

\* Mutant: a count one short of the minimum passes.
Insufficient_off_by_one(buildings_count, min_b) == buildings_count + 1 < min_b

\* buildings_count < min_buildings
Insufficient(buildings_count, min_b) == buildings_count < min_b

\* Lines 638-645: too few buildings: the error names the count found and
\* the count required.
PinInsufficient ==
    /\ pin_pc = "searching"
    /\ search_pc = "returned"
    /\ LET buildings_count == Len(coordinates)
           min_b == MinBuildings(data.no_of_clusters * data.no_of_buildings, data.tolerance)
       IN  /\ Insufficient(buildings_count, min_b)
           /\ response' = [code |-> 400, error |-> "Insufficient buildings",
                           actual |-> buildings_count, required |-> min_b]
    /\ pin_pc' = "responded"
    /\ UNCHANGED <<data, search_runs, partition_calls, partition_n>>
    /\ UNCHANGED <<plan_vars, asm_vars, split_vars, search_vars>>

\* The handler goes on to cluster (line 642 is false).
Sufficient ==
    /\ pin_pc = "searching"
    /\ search_pc = "returned"
    /\ ~Insufficient(Len(coordinates),
                     MinBuildings(data.no_of_clusters * data.no_of_buildings, data.tolerance))

\* Lines 655-657, 117-118: _calculate_cluster_sizes divides by
\* num_clusters = 0.
PinPlanRaise ==
    /\ Sufficient
    /\ data.no_of_clusters = 0
    /\ n_samples' = Len(coordinates)
    /\ num_clusters' = data.no_of_clusters
    /\ balance_tolerance' = data.tolerance
    /\ plan_pc' = "ZeroDivisionError"
    /\ response' = Failed("division by zero")
    /\ pin_pc' = "responded"
    /\ UNCHANGED <<sizes, buildings_per_cluster, data, search_runs, partition_calls,
                   partition_n>>
    /\ UNCHANGED <<asm_vars, split_vars, search_vars>>

\* Lines 655-657, 117-120, 68-78: the sizes are planned and the constrained
\* partition oracle is invoked, and raises.
PinPartitionRaise ==
    /\ Sufficient
    /\ data.no_of_clusters >= 1
    /\ n_samples' = Len(coordinates)
    /\ num_clusters' = data.no_of_clusters
    /\ balance_tolerance' = data.tolerance
    /\ sizes' = calculate_cluster_sizes(Len(coordinates), data.no_of_clusters, data.tolerance)
    /\ plan_pc' = "done"
    /\ partition_calls' = partition_calls + 1
    /\ partition_n' = Len(coordinates)
    /\ response' = Failed("KMeansConstrained")
    /\ pin_pc' = "responded"
    /\ UNCHANGED <<buildings_per_cluster, data, search_runs>>
    /\ UNCHANGED <<asm_vars, split_vars, search_vars>>

\* Lines 655-663, 117-121, 68-78, 205-218: the sizes are planned, the
\* oracle labels the points (best effort: any labels 0..k-1), getClusters
\* builds the records and the handler answers.
PinCluster ==
    /\ Sufficient
    /\ data.no_of_clusters >= 1
    /\ n_samples' = Len(coordinates)
    /\ num_clusters' = data.no_of_clusters
    /\ balance_tolerance' = data.tolerance
    /\ sizes' = calculate_cluster_sizes(Len(coordinates), data.no_of_clusters, data.tolerance)
    /\ plan_pc' = "done"
    /\ partition_calls' = partition_calls + 1
    /\ partition_n' = Len(coordinates)
    /\ \E labels \in [1..Len(coordinates) -> 0..(data.no_of_clusters - 1)] :
         /\ coords' = coordinates
         /\ cluster_labels' = labels
         /\ clusters' = getClusters(coordinates, labels)
         /\ buildingsGDF' = [has_cluster_label |-> TRUE, cluster_label |-> labels]
    /\ asm_pc' = "done"
    /\ response' = [code |-> 200, error |-> "none",
                    actual |-> Len(coordinates), required |-> 0]
    /\ pin_pc' = "responded"
    /\ UNCHANGED <<buildings_per_cluster, data, search_runs>>
    /\ UNCHANGED <<split_vars, search_vars>>

\* --------------------------------------------------------- specifications
PlanNext == PlanReturn \/ PlanRaise \/ PlanCount \/ PlanCountRaise

InitPlan == PlanInit /\ AsmIdle /\ SplitIdle /\ SearchIdle /\ PinIdle

SpecPlan == InitPlan /\ [][PlanNext]_vars

SplitNext ==
    SplitCall \/ SplitGroup \/ SplitRecurse \/ SplitAssign \/ SplitReturn \/ SplitFinish

InitSplit == SplitInit /\ PlanIdle /\ SearchIdle /\ PinIdle

SpecSplit == InitSplit /\ [][SplitNext]_vars

SearchNext ==
    \/ SearchStart /\ UNCHANGED <<plan_vars, asm_vars, split_vars, pin_vars>>
    \/ SearchExpand /\ UNCHANGED <<plan_vars, asm_vars, split_vars, pin_vars>>
    \/ SearchAll /\ UNCHANGED <<plan_vars, asm_vars, split_vars, pin_vars>>
    \/ SearchBracket /\ UNCHANGED <<plan_vars, asm_vars, split_vars, pin_vars>>
    \/ SearchBisect /\ UNCHANGED <<plan_vars, asm_vars, split_vars, pin_vars>>
    \/ SearchFinal /\ UNCHANGED <<plan_vars, asm_vars, split_vars, pin_vars>>
    \/ SearchReturn /\ UNCHANGED <<plan_vars, asm_vars, split_vars, pin_vars>>
    \/ SearchRaise /\ UNCHANGED <<plan_vars, asm_vars, split_vars, pin_vars>>

InitSearch == SearchInit /\ PlanIdle /\ AsmIdle /\ SplitIdle /\ PinIdle

SpecSearch == InitSearch /\ [][SearchNext]_vars

PinNext ==
    \/ PinInvalid
    \/ PinSearch
    \/ SearchStart /\ UNCHANGED <<plan_vars, asm_vars, split_vars, pin_vars>>
    \/ SearchExpand /\ UNCHANGED <<plan_vars, asm_vars, split_vars, pin_vars>>
    \/ SearchAll /\ UNCHANGED <<plan_vars, asm_vars, split_vars, pin_vars>>
    \/ SearchBracket /\ UNCHANGED <<plan_vars, asm_vars, split_vars, pin_vars>>
    \/ SearchBisect /\ UNCHANGED <<plan_vars, asm_vars, split_vars, pin_vars>>
    \/ SearchFinal /\ UNCHANGED <<plan_vars, asm_vars, split_vars, pin_vars>>
    \/ SearchReturn /\ UNCHANGED <<plan_vars, asm_vars, split_vars, pin_vars>>
    \/ SearchRaise /\ UNCHANGED <<plan_vars, asm_vars, split_vars, pin_vars>>
    \/ PinSearchRaised
    \/ PinInsufficient
    \/ PinPlanRaise
    \/ PinPartitionRaise
    \/ PinCluster

InitPin == PinInit /\ PlanIdle /\ AsmIdle /\ SplitIdle /\ SearchIdle

SpecPin == InitPin /\ [][PinNext]_vars

\* C1: when the expansion ends with a count at or above the lower bound and
\* the oracle answers the same box with the same count every time, the
\* number s of points returned satisfies
\* total*(1 - tolerance) <= s <= total*(1 + tolerance).
C1_SizeInBand ==
    (search_pc = "returned" /\ branch = "bisect" /\ consistent) =>
        /\ total_buildings_needed * (100 - tolerance) <= 100 * Len(coordinates)
        /\ 100 * Len(coordinates) <= total_buildings_needed * (100 + tolerance)

\* C8: a request with noOfClusters <= 0 is rejected before any oracle query
\* of the expansion or bisection phase and before any size planning.
C8_NonPositiveRejected ==
    (pin_pc # "idle" /\ data.no_of_clusters <= 0) =>
        (queries = 0 /\ plan_pc = "idle")

Population(id) == Cardinality({i \in 1..Len(cluster_labels) : cluster_labels[i] = id})

\* C2: whenever a call with max_buildings >= 1 and a shrink factor below 1
\* returns a labeling, every final cluster ID labels at most max_buildings
\* points, whatever groups fcluster produced at each level.
C2_ClustersWithinCap ==
    (split_pc = "done" /\ max_buildings >= 1 /\ thresholdVal < 100) =>
        \A id \in Range(cluster_labels) : Population(id) <= max_buildings

\* A returned labeling of four points with cap 2, reached through recursive
\* calls, with a cluster that fills the cap.
C2_Witness ==
    /\ split_pc = "done" /\ thresholdVal < 100 /\ max_buildings = 2
    /\ Len(cluster_labels) = 4
    /\ calls >= 3
    /\ \E id \in Range(cluster_labels) : Population(id) = 2

\* C3: a returned labeling has one label per input point, every label is a
\* positive integer, the finalized groups partition the points, the k-th
\* group finalized (k = 1..K) carries the ID k on all its points and on no
\* other point, so that two points share an ID exactly when they are in the
\* same finalized group.
C3_FaithfulPartition ==
    split_pc = "done" =>
        LET n == Len(coords)
            K == Len(finalized)
        IN  /\ Len(cluster_labels) = n
            /\ \A i \in 1..n : cluster_labels[i] \in 1..K
            /\ \A k \in 1..K : finalized[k] # {} /\ finalized[k] \subseteq 1..n
            /\ \A k, l \in 1..K : k # l => finalized[k] \cap finalized[l] = {}
            /\ UNION {finalized[k] : k \in 1..K} = 1..n
            /\ \A k \in 1..K : \A i \in 1..n : (cluster_labels[i] = k) <=> (i \in finalized[k])
            /\ \A i, j \in 1..n :
                  (cluster_labels[i] = cluster_labels[j]) <=>
                      (\E k \in 1..K : i \in finalized[k] /\ j \in finalized[k])

\* A returned labeling whose groups were finalized at two recursion levels
\* and whose IDs are not in the order of the points.
C3_Witness ==
    /\ split_pc = "done"
    /\ calls >= 2
    /\ Len(finalized) >= 3
    /\ \E i, j \in 1..Len(cluster_labels) : i < j /\ cluster_labels[i] > cluster_labels[j]

\* C7: a call with a shrink factor >= 1 is rejected, so it produces no
\* labeling; stated by the consequence the claim singles out: such a call
\* never returns a labeling in which a group over the cap is one final
\* cluster.
C7_ShrinkFactorRejected ==
    thresholdVal >= 100 =>
        ~(/\ split_pc = "done"
          /\ \E id \in Range(cluster_labels) : Population(id) > max_buildings)

\* C4: for n_samples >= 1, num_clusters >= 1 and a tolerance in [0, 1) the
\* returned sizes satisfy min_size <= base_size <= max_size, and a single
\* cluster gets min_size = max_size = base_size.
C4_SizesOrdered ==
    (plan_pc = "done" /\ n_samples >= 1 /\ num_clusters >= 1) =>
        /\ sizes.min_size <= sizes.base_size
        /\ sizes.base_size <= sizes.max_size
        /\ (num_clusters = 1 =>
                sizes.min_size = sizes.base_size /\ sizes.max_size = sizes.base_size)

C4_Witness ==
    /\ plan_pc = "done"
    /\ n_samples = 10 /\ num_clusters = 3 /\ balance_tolerance = 5
    /\ sizes = [base_size |-> 4, min_size |-> 3, max_size |-> 5]

\* C5: with tolerance 0, min_size is the floor and max_size = base_size the
\* ceiling of n_samples / num_clusters (each stated by the two inequalities
\* that define it), so max_size - min_size <= 1; n_samples = 0 returns
\* base_size = 0 and does not raise.
C5_ExactSplit ==
    (plan_pc # "call" /\ balance_tolerance = 0 /\ num_clusters >= 1) =>
        /\ plan_pc = "done"
        /\ num_clusters * sizes.min_size <= n_samples
        /\ n_samples < num_clusters * (sizes.min_size + 1)
        /\ num_clusters * (sizes.base_size - 1) < n_samples
        /\ n_samples <= num_clusters * sizes.base_size
        /\ sizes.max_size = sizes.base_size
        /\ sizes.max_size - sizes.min_size <= 1
        /\ (n_samples = 0 => sizes.base_size = 0)

C5_Witness ==
    /\ plan_pc = "done" /\ balance_tolerance = 0
    /\ n_samples = 10 /\ num_clusters = 3
    /\ sizes.min_size = 3 /\ sizes.max_size = 4

AsmNext == AsmReturn

InitAssemble == AsmInit /\ PlanIdle /\ SplitIdle /\ SearchIdle /\ PinIdle

SpecAssemble == InitAssemble /\ [][AsmNext]_vars

\* C6: with points and labels of equal length n, getClusters returns n
\* records in input order; record i carries point i's coordinates, label i
\* and the number of positions whose label equals label i.
C6_AssembleRecords ==
    (asm_pc = "done" /\ Len(coords) = Len(cluster_labels)) =>
        /\ Len(clusters) = Len(coords)
        /\ \A i \in 1..Len(coords) :
              /\ clusters[i].coordinates = coords[i]
              /\ clusters[i].cluster = cluster_labels[i]
              /\ clusters[i].numOfBuildings =
                    Cardinality({j \in 1..Len(cluster_labels) :
                                    cluster_labels[j] = cluster_labels[i]})

C6_Witness ==
    /\ asm_pc = "done"
    /\ coords = <<(<<0, 0>>), (<<1, 1>>), (<<2, 2>>)>>
    /\ cluster_labels = <<1, 1, 2>>
    /\ Len(clusters) = 3
    /\ clusters[1].numOfBuildings = 2
    /\ clusters[2].numOfBuildings = 2
    /\ clusters[3].numOfBuildings = 1

\* C9: a call with len(points) # len(labels) fails and returns no records;
\* stated by the consequence the claim singles out: such a call never
\* returns records built from the common prefix of the two sequences.
C9_MismatchFails ==
    Len(coords) # Len(cluster_labels) =>
        ~(asm_pc = "done" /\ clusters # <<>>)

\* ------------------------------------------------ the cap is hit below the band
\* The expansion stands at the 10 km cap with a count below the lower bound.
C11_CapShort ==
    /\ search_pc = "expand"
    /\ delta = max_delta
    /\ building_count < band.min_buildings

\* The collection counted at the cap is being fetched.
C11_Fetching == search_pc = "fetch" /\ branch = "all"

\* The call returns the buildings counted at the cap, all of them, without
\* another probe (the oracle answering the fetch as it answered the count).
C11_ReturnsAll ==
    /\ search_pc' = "returned"
    /\ queries' = queries
    /\ consistent' => Len(coordinates') = building_count

C12_InputsUnchanged ==
    [][(asm_pc = "call" /\ Len(coords) = Len(cluster_labels)) =>
          UNCHANGED <<buildingsGDF, coords, cluster_labels>>]_vars

\* ------------------------------------------------ the bracket of the bisection
\* The expansion radius probed just before radius d, walking the radii from
\* r: every radius before the one the loop stopped at was counted below the
\* lower bound, so this is the last sub-threshold radius.
RECURSIVE C13_LastShort(_, _)
C13_LastShort(r, d) == IF Grow(r) = d THEN r ELSE C13_LastShort(Grow(r), d)

\* C13: when the search enters the bisection after at least one growth step,
\* the bracket is [last sub-threshold radius of the expansion, radius at
\* which the expansion stopped].
C13_BracketFromLastShort ==
    [][(search_pc = "expand" /\ search_pc' = "bisect" /\ delta > initial_delta) =>
          /\ left' = C13_LastShort(initial_delta, delta)
          /\ right' = delta]_vars

\* ------------------------------------------------ the number of probes
\* The growth steps that take the expansion from radius r to radius d.
RECURSIVE C14_GrowthSteps(_, _)
C14_GrowthSteps(r, d) == IF r >= d THEN 0 ELSE 1 + C14_GrowthSteps(Grow(r), d)

\* The midpoint queries issued so far by the binary search: delta keeps the
\* radius at which the expansion stopped until the search leaves the loop, and
\* the expansion counted once at 2 km and once after each growth step.
C14_MidpointQueries == queries - (1 + C14_GrowthSteps(initial_delta, delta))

\* C14: whatever the oracle answers, the expansion issues at most 6 count
\* queries (one per radius from 2 km up to the 10 km cap), the binary search
\* issues at most 7 midpoint queries and keeps left <= right, and after the
\* 7th the bracket is no wider than the precision, so the loop is left for
\* the final fetch.
C14_BoundedProbes ==
    /\ search_pc = "expand" =>
          /\ queries = 1 + C14_GrowthSteps(initial_delta, delta)
          /\ queries <= 6
          /\ delta <= max_delta
    /\ search_pc = "bisect" =>
          /\ left <= right
          /\ right - left <= max_delta - initial_delta
          /\ C14_MidpointQueries \in 0..7
          /\ C14_MidpointQueries = 7 => ~WiderThanPrecision(left, right)
    /\ search_pc \in {"fetch", "returned", "raised"} => queries <= 6 + 7

\* The expansion went up to the cap, the binary search has issued its 7th
\* midpoint query, with answers on both sides of the bound, and stops.
C14_Witness ==
    /\ search_pc = "bisect"
    /\ delta = max_delta
    /\ C14_MidpointQueries = 7
    /\ initial_delta < left /\ left < right /\ right < max_delta
    /\ ~WiderThanPrecision(left, right)

\* ------------------------------------------------ the bounds handed to the oracle
\* C15: the planned bounds can be met in total: for n_samples >= 0,
\* num_clusters >= 1 and every tolerance in [0, 1),
\* num_clusters * min_size <= n_samples <= num_clusters * max_size; and when
\* num_clusters is derived from buildings_per_cluster >= 1 and
\* n_samples >= 1, base_size does not exceed buildings_per_cluster.
C15_BoundsSatisfiable ==
    (plan_pc = "done" /\ n_samples >= 0 /\ num_clusters >= 1) =>
        /\ num_clusters * sizes.min_size <= n_samples
        /\ n_samples <= num_clusters * sizes.max_size
        /\ (buildings_per_cluster >= 1 /\ n_samples >= 1) =>
               sizes.base_size <= buildings_per_cluster

====
